---- MODULE Spec2Model ----
(***************************************************************************)
(* Model of src/src/ant.h: the array tour with its reverse position index  *)
(* (struct Solution), its move operators (swap_, relocate, swap_with_next, *)
(* relocate_rgaco), and the constructive walker layered on it (struct Ant).*)
(*                                                                         *)
(* C++ vectors are 0-based; a vector is modelled as a sequence and element *)
(* k of the vector is element k+1 of the sequence (see At / Put).          *)
(***************************************************************************)
EXTENDS Integers, Sequences, FiniteSets, TLC

\* ---------------------------------------------------------------- bounds
\* Largest tour length explored for the Solution (tour) operations.
MaxN == 4
\* Largest dimension passed to Ant::initialize.
MaxDim == 3
\* Number of public mutator calls applied to one tour (cost_ can drift
\* without bound, so the number of calls is capped in the guards).
MaxCalls == 2
\* A RouteIterator is stepped at most (tour length + MaxExtraSteps) times.
MaxExtraSteps == 1
\* Largest route length and largest cost handed to Solution::update.
MaxLen == 3
MaxCostArg == 1

\* --------------------------------------------------------- program constant
\* cost_ of a default-constructed Solution is
\* std::numeric_limits<double>::max(), the largest value of the cost type.
\* Costs are integers here, and the largest integer TLC holds stands for it.
CostMax == 2147483647

\* cost_ -= x and cost_ += x in double arithmetic: the maximum absorbs every
\* distance (max - x == max and max + x == max for x far below its last
\* digit); the other costs of the model are small integers, exact as doubles.
CostSub(cost, x) == IF cost = CostMax THEN CostMax ELSE cost - x

CostAdd(cost, x) == IF cost = CostMax THEN CostMax ELSE cost + x

VARIABLES
    route_,            \* Solution::route_
    cost_,             \* Solution::cost_
    node_indices_,     \* Solution::node_indices_
    unvisited_,        \* Ant::unvisited_
    visited_bitmask_,  \* Ant::visited_bitmask_
    dimension_,        \* Ant::dimension_
    visited_count_,    \* Ant::visited_count_
    problem,           \* the ProblemInstance handed to the cost-aware moves
    last,              \* the last call: name, arguments, state before it, result
    calls,             \* number of mutator calls applied to the tour so far
    tried,             \* nodes handed to try_visit / visit since the last initialize
    iterator           \* the RouteIterator in use, with the steps it has taken

vars == << route_, cost_, node_indices_, unvisited_, visited_bitmask_,
           dimension_, visited_count_, problem, last, calls, tried, iterator >>

\* ------------------------------------------------------------ vector access
At(vec, k) == vec[k + 1]

Put(vec, k, x) == [vec EXCEPT ![k + 1] = x]

Size(vec) == Len(vec)

Nodes(n) == 0 .. (n - 1)

\* All routes that are permutations of [0, n).
Perms(n) == { p \in [1 .. n -> Nodes(n)] : \A a, b \in 1 .. n : p[a] = p[b] => a = b }

IsPermutation(route) ==
    /\ \A k \in 1 .. Len(route) : route[k] \in Nodes(Len(route))
    /\ \A a, b \in 1 .. Len(route) : route[a] = route[b] => a = b

\* node_indices_[route_[i]] == i for every position i
IndexInSync(route, idx) ==
    /\ Len(idx) = Len(route)
    /\ \A i \in Nodes(Len(route)) : At(idx, At(route, i)) = i

\* The sequence left after deleting every occurrence of node v.
Without(route, v) == SelectSeq(route, LAMBDA x : x # v)

\* ------------------------------------------------- ProblemInstance (oracle)
\* Two families of symmetric integer distance matrices over n nodes.
\* "ring": nodes on a ring, neighbours on the ring (k, k+1 mod n) at
\* distance 5 and every other pair at distance 7; for n = 4 this is the
\* square of the spec's scenario scaled to integers (side 5, diagonal 7).
\* "line": node k at coordinate k*k on a line.
RingDistance(n) ==
    [a \in Nodes(n), b \in Nodes(n) |->
        IF a = b THEN 0
        ELSE IF (a - b) \in {1, -1, n - 1, 1 - n} THEN 5 ELSE 7]

LineDistance(n) ==
    [a \in Nodes(n), b \in Nodes(n) |->
        IF a >= b THEN a * a - b * b ELSE b * b - a * a]

Instances(n) ==
    { [dimension_ |-> n, dist |-> RingDistance(n)],
      [dimension_ |-> n, dist |-> LineDistance(n)] }

\* The moves read the distances only to adjust cost_; the tours are explored
\* over the ring instance.
TourInstances(n) == { [dimension_ |-> n, dist |-> RingDistance(n)] }

get_distance(p, a, b) == p.dist[a, b]

RECURSIVE RouteLengthFrom(_, _, _)
RouteLengthFrom(p, route, k) ==
    IF k >= Size(route) THEN 0
    ELSE get_distance(p, At(route, k),
                      At(route, IF k + 1 < Size(route) THEN k + 1 ELSE 0))
         + RouteLengthFrom(p, route, k + 1)

\* Sum of the distances between all cyclically adjacent pairs of the route.
calculate_route_length(p, route) == RouteLengthFrom(p, route, 0)

\* ------------------------------------------------------------------ Solution
\* A Solution value: the three fields of the struct, plus two observation
\* fields of the call in progress: swaps counts the elementary swaps it has
\* performed, ok is FALSE once an assert of the code has failed.

\* for (i = 0; i < route_.size(); ++i) node_indices_[route_[i]] = i;
\* node_indices_ is not resized here.  A write at or past its size() is a
\* write outside the vector: it changes no element of node_indices_, what
\* else it does is undefined; the model records it in ok and goes on.
RECURSIVE UpdateLoop(_, _)
UpdateLoop(s, i) ==
    IF i >= Size(s.route_) THEN s
    ELSE IF At(s.route_, i) < Size(s.node_indices_)
         THEN UpdateLoop([s EXCEPT !.node_indices_ = Put(@, At(s.route_, i), i)], i + 1)
         ELSE UpdateLoop([s EXCEPT !.ok = FALSE], i + 1)

update_node_indices(s) == UpdateLoop(s, 0)

\* Solution() = default
SolutionDefault ==
    [route_ |-> << >>, cost_ |-> CostMax, node_indices_ |-> << >>,
     swaps |-> 0, ok |-> TRUE]

\* update(route, cost)
update(s, route, cost) ==
    update_node_indices([s EXCEPT !.route_ = route, !.cost_ = cost])

\* update(other)
update_from(s, other) ==
    update_node_indices([s EXCEPT !.route_ = other.route_, !.cost_ = other.cost_])

\* Solution(route, cost): node_indices_(route.size(), 0), then rebuilt.
SolutionCtor(route, cost) ==
    update_node_indices(
        [route_ |-> route, cost_ |-> cost,
         node_indices_ |-> [k \in 1 .. Size(route) |-> 0],
         swaps |-> 0, ok |-> TRUE])

\* (index + 1u < route_.size()) ? index + 1u : 0u
SuccPosition(route, index) == IF index + 1 < Size(route) THEN index + 1 ELSE 0

\* (index > 0u) ? index - 1u : route_.size() - 1u
PredPosition(route, index) == IF index > 0 THEN index - 1 ELSE Size(route) - 1

get_succ_at(route, index) == At(route, SuccPosition(route, index))

\* get_pred that does not wrap from position 0 to the last position
get_pred_at_nowrap(route, index) ==
    At(route, IF index > 0 THEN index - 1 ELSE 0)

get_pred_at(route, index) == At(route, PredPosition(route, index))

get_succ(s, node) == get_succ_at(s.route_, At(s.node_indices_, node))

get_pred(s, node) == get_pred_at(s.route_, At(s.node_indices_, node))

\* contains_edge that looks in the successor direction only
contains_edge_successor_only(s, edge_head, edge_tail) ==
    get_succ(s, edge_head) = edge_tail

\* We assume that route is undirected
contains_edge(s, edge_head, edge_tail) ==
    \/ get_succ(s, edge_head) = edge_tail
    \/ get_pred(s, edge_head) = edge_tail

\* ------------------------------------------------------------ RouteIterator
\* A RouteIterator refers to the route_ of its tour and holds position_.
\* The other fields record its history: the node it was created at, the
\* steps taken ("succ" / "pred"), the cursor positions (the first is the
\* position at creation) and the nodes returned.
NoIterator ==
    [active |-> FALSE, position_ |-> 0, start |-> 0,
     ops |-> << >>, positions |-> << >>, seen |-> << >>]

\* return { route_, node_indices_[start_node] };
get_iterator(s, start_node) ==
    [active |-> TRUE, position_ |-> At(s.node_indices_, start_node),
     start |-> start_node, ops |-> << >>,
     positions |-> << At(s.node_indices_, start_node) >>, seen |-> << >>]

Stepped(route, it, op, position) ==
    [it EXCEPT !.position_ = position,
               !.ops = Append(@, op),
               !.positions = Append(@, position),
               !.seen = Append(@, At(route, position))]

\* goto_succ that stops at the last position instead of wrapping to 0
goto_succ_clamped(route, it) ==
    Stepped(route, it, "succ",
            IF it.position_ + 1 < Size(route) THEN it.position_ + 1 ELSE it.position_)

goto_succ(route, it) ==
    Stepped(route, it, "succ",
            IF it.position_ + 1 < Size(route) THEN it.position_ + 1 ELSE 0)

goto_pred(route, it) ==
    Stepped(route, it, "pred",
            IF it.position_ # 0 THEN it.position_ - 1 ELSE Size(route) - 1)

\* swap_ that exchanges the route entries only and leaves the index stale
swap_route_only(s, i, j) ==
    [s EXCEPT
        !.route_ = Put(Put(s.route_, i, At(s.route_, j)), j, At(s.route_, i)),
        !.swaps = @ + 1]

\* std::swap(node_indices_[route_[i]], node_indices_[route_[j]]);
\* std::swap(route_[i], route_[j]);
swap_(s, i, j) ==
    LET ri == At(s.route_, i)
        rj == At(s.route_, j)
        idx == s.node_indices_
    IN  [s EXCEPT
            !.node_indices_ = Put(Put(idx, ri, At(idx, rj)), rj, At(idx, ri)),
            !.route_ = Put(Put(s.route_, i, rj), j, ri),
            !.swaps = @ + 1]

\* while (j < i - 1) { swap_(j, j + 1); ++j; }
RECURSIVE RelocateUp(_, _, _)
RelocateUp(s, i, j) ==
    IF j < i - 1 THEN RelocateUp(swap_(s, j, j + 1), i, j + 1) ELSE s

\* while (j > i + 1) { swap_(j, j - 1); --j; }
RECURSIVE RelocateDown(_, _, _)
RelocateDown(s, i, j) ==
    IF j > i + 1 THEN RelocateDown(swap_(s, j, j - 1), i, j - 1) ELSE s

\* relocate that exchanges u and v when v is before u and shifts nothing
relocate_exchange_only(s, u, v) ==
    LET i == At(s.node_indices_, u)
        j == At(s.node_indices_, v)
    IN  IF j < i THEN swap_(s, i, j)
        ELSE RelocateDown(s, i, j)

\* place v after u
relocate(s, u, v) ==
    LET i == At(s.node_indices_, u)
        j == At(s.node_indices_, v)
    IN  IF j < i THEN RelocateUp(swap_(s, i, j), i, j)
        ELSE RelocateDown(s, i, j)

\* swap route[i] with route[i + 1], adjusting cost_ around the swap
swap_with_next(s, i, p) ==
    IF ~(i + 1 < Size(s.route_)) THEN [s EXCEPT !.ok = FALSE]
    ELSE
    LET u == At(s.route_, i)
        v == At(s.route_, i + 1)
        minus == get_distance(p, get_pred(s, u), u)
                 + get_distance(p, v, get_succ(s, v))
        t == [s EXCEPT
                !.node_indices_ = Put(Put(s.node_indices_, u, At(s.node_indices_, v)),
                                      v, At(s.node_indices_, u)),
                !.route_ = Put(Put(s.route_, i, v), i + 1, u)]
        plus == get_distance(p, get_pred(t, u), u)
                + get_distance(p, v, get_succ(t, v))
    IN  [t EXCEPT !.cost_ = CostAdd(CostSub(s.cost_, minus), plus), !.swaps = @ + 1]

\* while (j < i) { swap_with_next(j, problem); ++j; }
RECURSIVE RgacoUp(_, _, _, _)
RgacoUp(s, i, j, p) ==
    IF j < i /\ s.ok THEN RgacoUp(swap_with_next(s, j, p), i, j + 1, p)
    ELSE [s |-> s, j |-> j]

\* while (j > i + 1) { swap_with_next(j - 1, problem); --j; }
RECURSIVE RgacoDown(_, _, _, _)
RgacoDown(s, i, j, p) ==
    IF j > i + 1 /\ s.ok THEN RgacoDown(swap_with_next(s, j - 1, p), i, j - 1, p)
    ELSE s

\* relocate_rgaco without its first loop (v before u is left where it is)
relocate_rgaco_down_only(s, u, v, p) ==
    LET i == At(s.node_indices_, u)
        j == At(s.node_indices_, v)
    IN  RgacoDown(s, i, j, p)

\* relocate_rgaco whose second loop runs while (j > i)
relocate_rgaco_off_by_one(s, u, v, p) ==
    LET i == At(s.node_indices_, u)
        j == At(s.node_indices_, v)
        up == RgacoUp(s, i, j, p)
    IN  RgacoDown(up.s, i - 1, up.j, p)

\* relocate_rgaco whose first loop runs while (j <= i)
relocate_rgaco_up_inclusive(s, u, v, p) ==
    LET i == At(s.node_indices_, u)
        j == At(s.node_indices_, v)
        up == IF j < i THEN RgacoUp(s, i + 1, j, p) ELSE [s |-> s, j |-> j]
    IN  RgacoDown(up.s, i, up.j, p)

\* place v after u
relocate_rgaco(s, u, v, p) ==
    LET i == At(s.node_indices_, u)
        j == At(s.node_indices_, v)
        up == RgacoUp(s, i, j, p)
    IN  RgacoDown(up.s, i, up.j, p)

\* ------------------------------------------------------- the tour as state
Self ==
    [route_ |-> route_, cost_ |-> cost_, node_indices_ |-> node_indices_,
     swaps |-> 0, ok |-> TRUE]

\* The state of the whole object, kept in last.pre for before/after claims.
Snapshot ==
    [route_ |-> route_, cost_ |-> cost_, node_indices_ |-> node_indices_,
     unvisited_ |-> unvisited_, visited_bitmask_ |-> visited_bitmask_,
     dimension_ |-> dimension_, visited_count_ |-> visited_count_]

\* result is the node (or count) a call returned, flag its boolean result.
Call(name, a, b, swaps, ok, result, flag) ==
    [name |-> name, a |-> a, b |-> b, pre |-> Snapshot,
     swaps |-> swaps, ok |-> ok, result |-> result, flag |-> flag]

NoCall ==
    [name |-> "none", a |-> 0, b |-> 0,
     pre |-> [route_ |-> << >>, cost_ |-> 0, node_indices_ |-> << >>,
              unvisited_ |-> << >>, visited_bitmask_ |-> << >>,
              dimension_ |-> 0, visited_count_ |-> 0],
     swaps |-> 0, ok |-> TRUE, result |-> 0, flag |-> FALSE]

\* Ant(route, cost): Solution(route, cost), unvisited_(n, n), dimension_(n),
\* visited_count_(n); the bitmask is default-constructed.  The tour claims
\* are about its Solution part; the cost handed in is the route's length.
InitTour ==
    \E n \in 1 .. MaxN :
      \E route \in Perms(n), p \in TourInstances(n) :
        LET s == SolutionCtor(route, calculate_route_length(p, route))
        IN  /\ route_ = s.route_
            /\ cost_ = s.cost_
            /\ node_indices_ = s.node_indices_
            /\ unvisited_ = [k \in 1 .. n |-> n]
            /\ visited_bitmask_ = << >>
            /\ dimension_ = n
            /\ visited_count_ = n
            /\ problem = p
            /\ last = NoCall
            /\ calls = 0
            /\ tried = {}
            /\ iterator = NoIterator

AntFrame ==
    UNCHANGED << unvisited_, visited_bitmask_, dimension_, visited_count_, tried >>

Commit(s, name, a, b) ==
    /\ route_' = s.route_
    /\ cost_' = s.cost_
    /\ node_indices_' = s.node_indices_
    /\ last' = Call(name, a, b, s.swaps, s.ok, 0, FALSE)
    /\ calls' = calls + 1
    /\ UNCHANGED << problem, iterator >>
    /\ AntFrame

Swap(i, j) ==
    /\ calls < MaxCalls
    /\ Commit(swap_(Self, i, j), "swap_", i, j)

Relocate(u, v) ==
    /\ calls < MaxCalls
    /\ Commit(relocate(Self, u, v), "relocate", u, v)

RelocateRgaco(u, v) ==
    /\ calls < MaxCalls
    /\ Commit(relocate_rgaco(Self, u, v, problem), "relocate_rgaco", u, v)

NextTour ==
    \/ \E i, j \in Nodes(Size(route_)) : Swap(i, j)
    \/ \E u, v \in Nodes(Size(route_)) : Relocate(u, v)
    \/ \E u, v \in Nodes(Size(route_)) : RelocateRgaco(u, v)

SpecTour == InitTour /\ [][NextTour]_vars

\* ------------------------------------------------ replacing a tour wholesale
\* The routes and costs a caller hands to the constructor and to update.
Routes == UNION { Perms(n) : n \in 0 .. MaxLen }

Costs == 0 .. MaxCostArg

InitSolution(s) ==
    /\ route_ = s.route_
    /\ cost_ = s.cost_
    /\ node_indices_ = s.node_indices_
    /\ unvisited_ = << >>
    /\ visited_bitmask_ = << >>
    /\ dimension_ = 0
    /\ visited_count_ = 0
    /\ problem = [dimension_ |-> 0, dist |-> << >>]
    /\ last = NoCall
    /\ calls = 0
    /\ tried = {}
    /\ iterator = NoIterator

\* A Solution constructed empty, or from a (route, cost) pair.
InitUpdate ==
    \/ InitSolution(SolutionDefault)
    \/ \E route \in Routes, cost \in Costs : InitSolution(SolutionCtor(route, cost))

Update(route, cost) ==
    /\ calls < MaxCalls
    /\ Commit(update(Self, route, cost), "update", route, cost)

UpdateFrom(other) ==
    /\ calls < MaxCalls
    /\ Commit(update_from(Self, other), "update_from", other.route_, other.cost_)

NextUpdate ==
    \/ \E route \in Routes, cost \in Costs : Update(route, cost)
    \/ \E route \in Routes, cost \in Costs : UpdateFrom(SolutionCtor(route, cost))

SpecUpdate == InitUpdate /\ [][NextUpdate]_vars

\* ------------------------------------------- iterating over a (fixed) tour
TourFrame ==
    UNCHANGED << route_, cost_, node_indices_, unvisited_, visited_bitmask_,
                 dimension_, visited_count_, problem, last, calls, tried >>

GetIterator(start_node) ==
    /\ iterator' = get_iterator(Self, start_node)
    /\ TourFrame

GotoSucc ==
    /\ iterator.active
    /\ Len(iterator.ops) < Size(route_) + MaxExtraSteps
    /\ iterator' = goto_succ(route_, iterator)
    /\ TourFrame

GotoPred ==
    /\ iterator.active
    /\ Len(iterator.ops) < Size(route_) + MaxExtraSteps
    /\ iterator' = goto_pred(route_, iterator)
    /\ TourFrame

NextIter ==
    \/ \E start_node \in Nodes(Size(route_)) : GetIterator(start_node)
    \/ GotoSucc
    \/ GotoPred

SpecIter == InitTour /\ [][NextIter]_vars

\* ===================================================================
\* Bitmask (utils.h): a bit per node identifier
\* ===================================================================
Bitmask_resize(bits, n) ==
    [k \in 1 .. n |-> IF k <= Len(bits) THEN bits[k] ELSE FALSE]

Bitmask_clear(bits) == [k \in 1 .. Len(bits) |-> FALSE]

set_bit(bits, node) == Put(bits, node, TRUE)

get_bit(bits, node) == At(bits, node)

\* ===================================================================
\* Ant
\* ===================================================================
\* std::vector::resize: keeps the common prefix, value-initialises the rest.
Resize(vec, n) == [k \in 1 .. n |-> IF k <= Len(vec) THEN vec[k] ELSE 0]

\* std::iota(begin, end, 0)
Iota(vec) == [k \in 1 .. Len(vec) |-> k - 1]

\* Ant(): Solution() and the member initialisers of the struct.
AntCtor ==
    [route_ |-> << >>, cost_ |-> CostMax, node_indices_ |-> << >>,
     unvisited_ |-> << >>, visited_bitmask_ |-> << >>,
     dimension_ |-> 0, visited_count_ |-> 0, ok |-> TRUE]

\* initialize that resizes unvisited_ but does not refill it
initialize_no_iota(a, dimension) ==
    [a EXCEPT
        !.dimension_ = dimension,
        !.visited_count_ = 0,
        !.route_ = Resize(a.route_, dimension),
        !.unvisited_ = Resize(a.unvisited_, dimension),
        !.visited_bitmask_ = Bitmask_clear(Bitmask_resize(a.visited_bitmask_, dimension))]

\* initialize that does not reset visited_count_ unless the dimension changes
initialize_keep_count(a, dimension) ==
    [a EXCEPT
        !.dimension_ = dimension,
        !.visited_count_ = IF dimension = a.dimension_ THEN a.visited_count_ ELSE 0,
        !.route_ = Resize(a.route_, dimension),
        !.unvisited_ = Iota(Resize(a.unvisited_, dimension)),
        !.visited_bitmask_ = Bitmask_clear(Bitmask_resize(a.visited_bitmask_, dimension))]

\* node_indices_.reserve(dimension) changes neither the size nor the
\* elements of node_indices_.
initialize(a, dimension) ==
    [a EXCEPT
        !.dimension_ = dimension,
        !.visited_count_ = 0,
        !.route_ = Resize(a.route_, dimension),
        !.unvisited_ = Iota(Resize(a.unvisited_, dimension)),
        !.visited_bitmask_ = Bitmask_clear(Bitmask_resize(a.visited_bitmask_, dimension))]

is_visited(a, node) == get_bit(a.visited_bitmask_, node)

\* assert(!is_visited(u)); visited_bitmask_.set_bit(u);
visit_mark(a, u) ==
    [a EXCEPT
        !.ok = a.ok /\ ~is_visited(a, u),
        !.visited_bitmask_ = set_bit(a.visited_bitmask_, u)]

\* visit that stores the node but does not advance visited_count_
visit_no_advance(a, node) ==
    [a EXCEPT
        !.ok = a.ok /\ ~is_visited(a, node),
        !.route_ = Put(a.route_, a.visited_count_, node),
        !.visited_bitmask_ = set_bit(a.visited_bitmask_, node)]

\* visit that stores every node at the front of the route
visit_at_front(a, node) ==
    [a EXCEPT
        !.ok = a.ok /\ ~is_visited(a, node),
        !.route_ = Put(a.route_, 0, node),
        !.visited_count_ = a.visited_count_ + 1,
        !.visited_bitmask_ = set_bit(a.visited_bitmask_, node)]

visit(a, node) ==
    [a EXCEPT
        !.ok = a.ok /\ ~is_visited(a, node),
        !.route_ = Put(a.route_, a.visited_count_, node),
        !.visited_count_ = a.visited_count_ + 1,
        !.visited_bitmask_ = set_bit(a.visited_bitmask_, node)]

\* try_visit that reports success without looking at the visited bit
try_visit_unchecked(a, node) ==
    [a |-> IF a.visited_count_ < Size(a.route_) THEN visit(a, node) ELSE a,
     result |-> TRUE]

try_visit(a, node) ==
    IF ~is_visited(a, node)
    THEN [a |-> visit(a, node), result |-> TRUE]
    ELSE [a |-> a, result |-> FALSE]

get_current_node(a) == At(a.route_, a.visited_count_ - 1)

get_unvisited_count(a) == a.dimension_ - a.visited_count_

\* for (auto u : route_) { assert(!is_visited(u)); visited_bitmask_.set_bit(u); }
RECURSIVE ValidateLoop(_, _)
ValidateLoop(a, k) ==
    IF k >= Size(a.route_) THEN a
    ELSE ValidateLoop(visit_mark(a, At(a.route_, k)), k + 1)

\* validate(problem): two asserts, visited_bitmask_.clear(), then the loop.
\* ok is FALSE when an assert fails (a build without NDEBUG stops there).
validate(a, p) ==
    ValidateLoop(
        [a EXCEPT
            !.ok = /\ a.ok
                   /\ Size(a.route_) = p.dimension_
                   /\ a.cost_ = calculate_route_length(p, a.route_),
            !.visited_bitmask_ = Bitmask_clear(a.visited_bitmask_)], 0)

\* for (i = 0; i < n; ++i) { node = unvisited_[i];
\*     if (!is_visited(node)) unvisited_[j++] = node; }
RECURSIVE CompactLoop(_, _, _, _, _)
CompactLoop(a, unvisited, n, i, j) ==
    IF i >= n THEN [unvisited |-> unvisited, j |-> j]
    ELSE LET node == At(unvisited, i)
         IN  IF ~is_visited(a, node)
             THEN CompactLoop(a, Put(unvisited, j, node), n, i + 1, j + 1)
             ELSE CompactLoop(a, unvisited, n, i + 1, j)

\* get_unvisited_nodes that resizes without filtering anything out
get_unvisited_nodes_unfiltered(a) ==
    LET n == Size(a.unvisited_)
    IN  [a EXCEPT !.ok = a.ok /\ (n = get_unvisited_count(a)),
                  !.unvisited_ = Resize(a.unvisited_, n)]

get_unvisited_nodes(a) ==
    LET n == Size(a.unvisited_)
        r == CompactLoop(a, a.unvisited_, n, 0, 0)
    IN  [a EXCEPT !.ok = a.ok /\ (r.j = get_unvisited_count(a)),
                  !.unvisited_ = Resize(r.unvisited, r.j)]

\* The value read from node_indices_[node].  A read at or past size() is a
\* read of storage that initialize reserved and nothing ever wrote: the
\* value is any 32-bit word.  With n == route_.size(), the words below n are
\* positions of the route, n is itself, and n + 1 stands for every larger
\* word (each of them sends get_succ to route_[0] and get_pred past the end
\* of route_).
IndexRead(a, node) ==
    IF node < Size(a.node_indices_) THEN { At(a.node_indices_, node) }
    ELSE 0 .. (Size(a.route_) + 1)

\* The outcomes of reading route_[k].  Inside the vector it is the element.
\* Outside, the read is undefined: it faults (ok is FALSE), or it returns
\* the word found there, a node of the route or any other value, for which
\* route_.size() stands.
RouteRead(route, k) ==
    IF k < Size(route) THEN { [value |-> At(route, k), ok |-> TRUE] }
    ELSE { [value |-> w, ok |-> TRUE] : w \in 0 .. Size(route) }
         \cup { [value |-> 0, ok |-> FALSE] }

\* get_succ(node) on the walker
GetSuccOutcomes(a, node) ==
    UNION { RouteRead(a.route_, SuccPosition(a.route_, index)) :
                index \in IndexRead(a, node) }

\* get_pred(node) on the walker
GetPredOutcomes(a, node) ==
    UNION { RouteRead(a.route_, PredPosition(a.route_, index)) :
                index \in IndexRead(a, node) }

\* get_succ(edge_head) == edge_tail || get_pred(edge_head) == edge_tail:
\* get_pred is not called when the first comparison is true.
ContainsEdgeOutcomes(a, edge_head, edge_tail) ==
    { IF ~succ.ok THEN [flag |-> FALSE, ok |-> FALSE]
      ELSE IF succ.value = edge_tail THEN [flag |-> TRUE, ok |-> TRUE]
      ELSE [flag |-> pred.ok /\ pred.value = edge_tail, ok |-> pred.ok] :
          succ \in GetSuccOutcomes(a, edge_head),
          pred \in GetPredOutcomes(a, edge_head) }

\* ------------------------------------------------------- the walker as state
AntSelf ==
    [route_ |-> route_, cost_ |-> cost_, node_indices_ |-> node_indices_,
     unvisited_ |-> unvisited_, visited_bitmask_ |-> visited_bitmask_,
     dimension_ |-> dimension_, visited_count_ |-> visited_count_, ok |-> TRUE]

NoProblem == [dimension_ |-> 0, dist |-> << >>]

InitAnt ==
    /\ route_ = AntCtor.route_
    /\ cost_ = AntCtor.cost_
    /\ node_indices_ = AntCtor.node_indices_
    /\ unvisited_ = AntCtor.unvisited_
    /\ visited_bitmask_ = AntCtor.visited_bitmask_
    /\ dimension_ = AntCtor.dimension_
    /\ visited_count_ = AntCtor.visited_count_
    /\ problem = NoProblem
    /\ last = NoCall
    /\ calls = 0
    /\ tried = {}
    /\ iterator = NoIterator

\* The last query read outside route_ and the process was stopped by the
\* fault: nothing is called on this walker any more.
Faulted ==
    /\ last.name \in {"get_succ", "get_pred", "contains_edge"}
    /\ ~last.ok

CommitAnt(a) ==
    /\ ~Faulted
    /\ route_' = a.route_
    /\ cost_' = a.cost_
    /\ node_indices_' = a.node_indices_
    /\ unvisited_' = a.unvisited_
    /\ visited_bitmask_' = a.visited_bitmask_
    /\ dimension_' = a.dimension_
    /\ visited_count_' = a.visited_count_
    /\ UNCHANGED << problem, calls, iterator >>

Initialize(d) ==
    /\ CommitAnt(initialize(AntSelf, d))
    /\ last' = Call("initialize", d, 0, 0, TRUE, 0, FALSE)
    /\ tried' = {}

\* visit(node) by a caller that respects the precondition !is_visited(node)
Visit(node) ==
    /\ ~is_visited(AntSelf, node)
    /\ LET a == visit(AntSelf, node)
       IN  /\ CommitAnt(a)
           /\ last' = Call("visit", node, 0, 0, a.ok, 0, FALSE)
    /\ tried' = tried \cup {node}

TryVisit(node) ==
    LET r == try_visit(AntSelf, node)
    IN  /\ CommitAnt(r.a)
        /\ last' = Call("try_visit", node, 0, 0, r.a.ok, 0, r.result)
        /\ tried' = tried \cup {node}

GetUnvisitedNodes ==
    LET a == get_unvisited_nodes(AntSelf)
    IN  /\ CommitAnt(a)
        /\ last' = Call("get_unvisited_nodes", 0, 0, 0, a.ok, Size(a.unvisited_), FALSE)
        /\ UNCHANGED tried

\* The three tour queries asked of the walker; they change no field.
Query(call) ==
    /\ ~Faulted
    /\ last' = call
    /\ UNCHANGED << route_, cost_, node_indices_, unvisited_, visited_bitmask_,
                    dimension_, visited_count_, problem, calls, tried, iterator >>

GetSucc(node) ==
    \E o \in GetSuccOutcomes(AntSelf, node) :
        Query(Call("get_succ", node, 0, 0, o.ok, o.value, FALSE))

GetPred(node) ==
    \E o \in GetPredOutcomes(AntSelf, node) :
        Query(Call("get_pred", node, 0, 0, o.ok, o.value, FALSE))

ContainsEdge(edge_head, edge_tail) ==
    \E o \in ContainsEdgeOutcomes(AntSelf, edge_head, edge_tail) :
        Query(Call("contains_edge", edge_head, edge_tail, 0, o.ok, 0, o.flag))

NextAnt ==
    \/ \E d \in 1 .. MaxDim : Initialize(d)
    \/ \E node \in Nodes(dimension_) : TryVisit(node)
    \/ \E node \in Nodes(dimension_) : Visit(node)
    \/ GetUnvisitedNodes
    \/ \E node \in Nodes(dimension_) : GetSucc(node)
    \/ \E node \in Nodes(dimension_) : GetPred(node)
    \/ \E edge_head, edge_tail \in Nodes(dimension_) : ContainsEdge(edge_head, edge_tail)

SpecAnt == InitAnt /\ [][NextAnt]_vars

\* ------------------------------------------------------ one construction
\* The walker right after Ant() and initialize(d).
InitConstruct ==
    \E d \in 1 .. MaxDim :
        LET a == initialize(AntCtor, d)
        IN  /\ route_ = a.route_
            /\ cost_ = a.cost_
            /\ node_indices_ = a.node_indices_
            /\ unvisited_ = a.unvisited_
            /\ visited_bitmask_ = a.visited_bitmask_
            /\ dimension_ = a.dimension_
            /\ visited_count_ = a.visited_count_
            /\ problem = NoProblem
            /\ last = [NoCall EXCEPT !.name = "initialize", !.a = d]
            /\ calls = 0
            /\ tried = {}
            /\ iterator = NoIterator

\* try_visit on a node that is not visited yet
TryVisitUnvisited ==
    \E node \in Nodes(dimension_) :
        /\ ~is_visited(AntSelf, node)
        /\ TryVisit(node)

NextConstruct ==
    \/ \E node \in Nodes(dimension_) : TryVisit(node)
    \/ GetUnvisitedNodes

\* The caller keeps calling try_visit on some unvisited node while one exists.
SpecConstruct ==
    InitConstruct /\ [][NextConstruct]_vars /\ WF_vars(TryVisitUnvisited)

\* ------------------------------------------- constructing and validating
\* A default-constructed walker and the problem instance it is used for.
InitValidate ==
    /\ route_ = AntCtor.route_
    /\ cost_ = AntCtor.cost_
    /\ node_indices_ = AntCtor.node_indices_
    /\ unvisited_ = AntCtor.unvisited_
    /\ visited_bitmask_ = AntCtor.visited_bitmask_
    /\ dimension_ = AntCtor.dimension_
    /\ visited_count_ = AntCtor.visited_count_
    /\ problem \in UNION { Instances(n) : n \in 1 .. MaxDim }
    /\ last = NoCall
    /\ calls = 0
    /\ tried = {}
    /\ iterator = NoIterator

\* The caller stores the length of the route it has built in the public
\* field cost_ (the walker itself never writes cost_).
AssignCost ==
    /\ Size(route_) = problem.dimension_
    /\ CommitAnt([AntSelf EXCEPT !.cost_ = calculate_route_length(problem, route_)])
    /\ last' = Call("assign_cost", 0, 0, 0, TRUE, 0, FALSE)
    /\ UNCHANGED tried

Validate ==
    LET a == validate(AntSelf, problem)
    IN  /\ CommitAnt(a)
        /\ last' = Call("validate", 0, 0, 0, a.ok, 0, FALSE)
        /\ UNCHANGED tried

NextValidate ==
    \/ Initialize(problem.dimension_)
    \/ \E node \in Nodes(dimension_) : TryVisit(node)
    \/ AssignCost
    \/ Validate

SpecValidate == InitValidate /\ [][NextValidate]_vars

\* ===================================================================
\* Claims about the tour (checked under SpecTour)
\* ===================================================================

\* The Solution part of the state before the last call.
Before ==
    [route_ |-> last.pre.route_, cost_ |-> last.pre.cost_,
     node_indices_ |-> last.pre.node_indices_, swaps |-> 0, ok |-> TRUE]

\* C1: after any sequence of swap_, relocate and relocate_rgaco calls on a
\* tour built from a permutation of [0, n), route_ is still a permutation of
\* [0, n) and node_indices_[route_[i]] == i for every position i.
C1_PermutationAndIndexInSync ==
    /\ IsPermutation(route_)
    /\ IndexInSync(route_, node_indices_)

\* C1 witness: a second mutator call, a relocate_rgaco that moved nodes.
C1_Witness ==
    /\ calls = 2
    /\ last.name = "relocate_rgaco"
    /\ last.swaps >= 2
    /\ route_ # last.pre.route_

\* C2 (as claimed): when cost_ was the route's length before
\* relocate_rgaco(u, v) with u # v, cost_ is the length of the new route.
C2_CostIsRouteLengthAfterRgaco ==
    ( /\ last.name = "relocate_rgaco"
      /\ last.a # last.b
      /\ last.pre.cost_ = calculate_route_length(problem, last.pre.route_) )
    => cost_ = calculate_route_length(problem, route_)

\* C3: after relocate(u, v) with u # v, v is the successor of u, the route
\* is still a permutation, and the route with v deleted is what it was.
C3_RelocatePlacesVAfterU ==
    (last.name = "relocate" /\ last.a # last.b)
    => /\ get_succ(Self, last.a) = last.b
       /\ IsPermutation(route_)
       /\ Without(route_, last.b) = Without(last.pre.route_, last.b)

\* C3 witness: relocate moved v forward over at least one other node to u.
C3_Witness ==
    /\ last.name = "relocate"
    /\ At(last.pre.node_indices_, last.b) + 1 < At(last.pre.node_indices_, last.a)
    /\ last.swaps >= 2
    /\ get_succ(Self, last.a) = last.b

\* C4: from the same tour and the same distinct u, v, relocate and
\* relocate_rgaco end with the same route_ and the same node_indices_.
C4_RelocateAgreesWithRgaco ==
    /\ (last.name = "relocate" /\ last.a # last.b)
       => LET r == relocate_rgaco(Before, last.a, last.b, problem)
          IN  route_ = r.route_ /\ node_indices_ = r.node_indices_
    /\ (last.name = "relocate_rgaco" /\ last.a # last.b)
       => LET r == relocate(Before, last.a, last.b)
          IN  route_ = r.route_ /\ node_indices_ = r.node_indices_

\* C4 witness: a relocate_rgaco call that carried v forward past u.
C4_Witness ==
    /\ last.name = "relocate_rgaco"
    /\ At(last.pre.node_indices_, last.b) + 1 < At(last.pre.node_indices_, last.a)
    /\ route_ = relocate(Before, last.a, last.b).route_

\* C5 (as claimed): if v was the cyclic successor of u, relocate_rgaco(u, v)
\* performed no swap and left route_, node_indices_ and cost_ unchanged.
C5_NoOpWhenCyclicSuccessor ==
    (last.name = "relocate_rgaco" /\ get_succ(Before, last.a) = last.b)
    => /\ last.swaps = 0
       /\ route_ = last.pre.route_
       /\ node_indices_ = last.pre.node_indices_
       /\ cost_ = last.pre.cost_

\* C5 (amended): if v was at the position right after u's position
\* (node_indices_[v] == node_indices_[u] + 1), relocate_rgaco(u, v) performed
\* no swap and left route_, node_indices_ and cost_ unchanged; when u was
\* last and v first, it performed size - 1 swaps and rotated the route left.
C5_NoOpWhenNextPosition ==
    /\ ( /\ last.name = "relocate_rgaco"
         /\ At(last.pre.node_indices_, last.b) = At(last.pre.node_indices_, last.a) + 1 )
       => /\ last.swaps = 0
          /\ route_ = last.pre.route_
          /\ node_indices_ = last.pre.node_indices_
          /\ cost_ = last.pre.cost_
    /\ ( /\ last.name = "relocate_rgaco"
         /\ last.a # last.b
         /\ At(last.pre.node_indices_, last.b) = 0
         /\ At(last.pre.node_indices_, last.a) = Size(last.pre.route_) - 1 )
       => /\ last.swaps = Size(route_) - 1
          /\ route_ = Tail(last.pre.route_) \o << last.b >>

\* C5 witness: relocate_rgaco(u, v) on a tour where v sat right after u.
C5_Witness ==
    /\ last.name = "relocate_rgaco"
    /\ At(last.pre.node_indices_, last.b) = At(last.pre.node_indices_, last.a) + 1
    /\ Size(route_) >= 3
    /\ last.swaps = 0

\* C10: in a tour of length >= 2, get_pred(get_succ(n)) == n and
\* get_succ(get_pred(n)) == n for every node n, the ends included.
C10_SuccPredInverse ==
    Size(route_) >= 2
    => \A n \in Nodes(Size(route_)) :
          /\ get_pred(Self, get_succ(Self, n)) = n
          /\ get_succ(Self, get_pred(Self, n)) = n

\* C10 witness: a tour that has been moved, whose last node's successor is
\* the first node and whose first node's predecessor is the last node.
C10_Witness ==
    /\ calls > 0
    /\ Size(route_) >= 3
    /\ route_ # last.pre.route_
    /\ get_succ(Self, At(route_, Size(route_) - 1)) = At(route_, 0)
    /\ get_pred(Self, At(route_, 0)) = At(route_, Size(route_) - 1)

\* ===================================================================
\* Claims about the walker (checked under SpecAnt)
\* ===================================================================

\* Construction is complete and every node of [0, d) has been offered.
AllTried == dimension_ > 0 /\ tried = Nodes(dimension_)

\* The position of node n in the (complete) route.
PositionOf(n) == CHOOSE k \in Nodes(Size(route_)) : At(route_, k) = n

NoDuplicates(vec) == \A a, b \in 1 .. Len(vec) : vec[a] = vec[b] => a = b

Elements(vec) == { vec[k] : k \in 1 .. Len(vec) }

\* C6 (as claimed): once all d nodes were visited after initialize(d) on a
\* fresh walker, get_succ, get_pred and contains_edge answer according to
\* the route built by visit: successor and predecessor are the cyclic
\* neighbours in route_, and contains_edge holds exactly for neighbours.
C6_QueriesFollowBuiltRoute ==
    (AllTried /\ visited_count_ = dimension_ /\ dimension_ >= 2)
    => LET d == dimension_
       IN  /\ last.name = "get_succ"
              => last.result = At(route_, (PositionOf(last.a) + 1) % d)
           /\ last.name = "get_pred"
              => last.result = At(route_, (PositionOf(last.a) + d - 1) % d)
           /\ last.name = "contains_edge"
              => (last.flag <=>
                    (PositionOf(last.a) - PositionOf(last.b)) % d \in {1, d - 1})

\* C7: after initialize(d) and a try_visit on each of the d nodes (with
\* get_unvisited_nodes calls anywhere in between), visited_count_ == d,
\* get_unvisited_count() == 0, get_unvisited_nodes() returns an empty
\* sequence and route_ is a permutation of [0, d).
C7_AllVisitedIsComplete ==
    AllTried
    => /\ visited_count_ = dimension_
       /\ get_unvisited_count(AntSelf) = 0
       /\ get_unvisited_nodes(AntSelf).unvisited_ = << >>
       /\ IsPermutation(route_)

\* C7 witness: every node tried, then get_unvisited_nodes emptied a list
\* that still held stale entries.
C7_Witness ==
    /\ AllTried
    /\ dimension_ >= 3
    /\ last.name = "get_unvisited_nodes"
    /\ Size(last.pre.unvisited_) > 0
    /\ unvisited_ = << >>

\* C8: try_visit(node) returns false exactly when node was already visited,
\* and then changes nothing; otherwise it returns true and does what visit
\* does (stores node at route_[visited_count_], advances visited_count_,
\* sets the bit, touches neither unvisited_ nor cost_).  A try_visit that
\* directly follows a successful try_visit of the same node returns false
\* and changes nothing.
C8_TryVisit ==
    /\ [] ( last.name = "try_visit"
            => /\ last.flag = ~get_bit(last.pre.visited_bitmask_, last.a)
               /\ ~last.flag => Snapshot = last.pre
               /\ last.flag
                  => /\ route_ = Put(last.pre.route_, last.pre.visited_count_, last.a)
                     /\ visited_count_ = last.pre.visited_count_ + 1
                     /\ visited_bitmask_ = set_bit(last.pre.visited_bitmask_, last.a)
                     /\ unvisited_ = last.pre.unvisited_
                     /\ cost_ = last.pre.cost_
                     /\ node_indices_ = last.pre.node_indices_
                     /\ dimension_ = last.pre.dimension_ )
    /\ [][ ( /\ last.name = "try_visit" /\ last.flag
             /\ last'.name = "try_visit" /\ last'.a = last.a )
           => ( /\ ~last'.flag
                /\ UNCHANGED << route_, cost_, node_indices_, unvisited_,
                                visited_bitmask_, dimension_, visited_count_ >> ) ]_vars

\* C8 witness: a try_visit that was refused for a node already in the route
\* while construction was still under way.
C8_Witness ==
    /\ last.name = "try_visit"
    /\ ~last.flag
    /\ visited_count_ < dimension_
    /\ \E k \in Nodes(visited_count_) : At(route_, k) = last.a
    /\ Snapshot = last.pre

\* C9: in every state reached from initialize by try_visit and
\* get_unvisited_nodes calls, get_unvisited_nodes returns a sequence without
\* duplicates, holding exactly the nodes that are not visited, of length
\* get_unvisited_count(), and its assertion j == get_unvisited_count() holds.
C9_UnvisitedNodesExact ==
    /\ LET r == get_unvisited_nodes(AntSelf)
       IN  /\ r.ok
           /\ NoDuplicates(r.unvisited_)
           /\ Elements(r.unvisited_)
                = { n \in Nodes(dimension_) : ~is_visited(AntSelf, n) }
           /\ Size(r.unvisited_) = get_unvisited_count(AntSelf)
    /\ last.name = "get_unvisited_nodes"
       => /\ last.ok
          /\ last.result = get_unvisited_count(AntSelf)
          /\ Elements(unvisited_)
               = { n \in Nodes(dimension_) : ~is_visited(AntSelf, n) }

\* C9 witness: a get_unvisited_nodes call that dropped stale entries and
\* kept some unvisited ones.
C9_Witness ==
    /\ last.name = "get_unvisited_nodes"
    /\ Size(unvisited_) > 0
    /\ Size(unvisited_) < Size(last.pre.unvisited_)

\* ===================================================================
\* Further claims about the tour (checked under SpecTour)
\* ===================================================================

\* Positions p and q of a tour of length n are cyclically adjacent: they
\* differ by 1 modulo n.
CyclicallyAdjacent(p, q, n) == (p - q) % n \in {1 % n, (n - 1) % n}

\* C11: for every pair of nodes a, b of a tour, contains_edge(a, b) equals
\* contains_edge(b, a), and it is true exactly when the positions of a and
\* b differ by 1 modulo the tour length.
C11_ContainsEdgeSymmetric ==
    \A a, b \in Nodes(Size(route_)) :
        /\ contains_edge(Self, a, b) = contains_edge(Self, b, a)
        /\ contains_edge(Self, a, b)
             <=> CyclicallyAdjacent(At(node_indices_, a), At(node_indices_, b),
                                    Size(route_))

\* C11 witness: a moved tour of length >= 4; the pair at the two ends is an
\* edge in both directions and the pair at positions 0 and 2 is not.
C11_Witness ==
    /\ calls > 0
    /\ route_ # last.pre.route_
    /\ Size(route_) >= 4
    /\ contains_edge(Self, At(route_, Size(route_) - 1), At(route_, 0))
    /\ contains_edge(Self, At(route_, 0), At(route_, Size(route_) - 1))
    /\ ~contains_edge(Self, At(route_, 0), At(route_, 2))

\* The distance between the positions u and v had before the last call.
PositionGap ==
    LET i == At(last.pre.node_indices_, last.a)
        j == At(last.pre.node_indices_, last.b)
    IN  IF i >= j THEN i - j ELSE j - i

\* C20: every swap_with_next(k) issued by relocate_rgaco(u, v), u # v, has
\* k + 1 < size (its assertion holds), and relocate_rgaco issues at most
\* |position(u) - position(v)| of them.
C20_RgacoSwapsInRange ==
    (last.name = "relocate_rgaco" /\ last.a # last.b)
    => /\ last.ok
       /\ last.swaps <= PositionGap

\* C20 witness: relocate_rgaco(u, v) with v first and u last in a tour of
\* length >= 3, whose last elementary swap is at position size - 2.
C20_Witness ==
    /\ last.name = "relocate_rgaco"
    /\ Size(route_) >= 3
    /\ At(last.pre.node_indices_, last.b) = 0
    /\ At(last.pre.node_indices_, last.a) = Size(route_) - 1
    /\ last.swaps = Size(route_) - 1
    /\ last.ok

\* ===================================================================
\* Further claims about the walker (checked under SpecAnt)
\* ===================================================================

\* The nodes whose visited bit is set.
VisitedSet == { n \in Nodes(dimension_) : is_visited(AntSelf, n) }

\* The last call placed a node: a visit, or a try_visit that returned true.
LastPlaced == last.name = "visit" \/ (last.name = "try_visit" /\ last.flag)

\* C12: visited_count_ never exceeds dimension_; no call but initialize
\* lowers it; and once visited_count_ == dimension_ the walker stays so
\* until initialize is called, every try_visit in between returning false.
C12_WalkerStateMachine ==
    /\ [](visited_count_ <= dimension_)
    /\ [][ last'.name # "initialize" => visited_count_' >= visited_count_ ]_vars
    /\ [][ (visited_count_ = dimension_ /\ last'.name # "initialize")
           => /\ visited_count_' = dimension_'
              /\ last'.name = "try_visit" => ~last'.flag ]_vars

\* C12 witness: a try_visit refused on a walker that was already complete.
C12_Witness ==
    /\ dimension_ >= 2
    /\ visited_count_ = dimension_
    /\ last.name = "try_visit"
    /\ ~last.flag
    /\ last.pre.visited_count_ = dimension_

\* C15: the entries route_[0 .. visited_count_-1] are pairwise distinct,
\* they are exactly the nodes whose visited bit is set, visited_count_ is
\* the number of set bits, and a visit writes route_[visited_count_] only.
C15_VisitedPrefix ==
    LET prefix == SubSeq(route_, 1, visited_count_)
    IN  /\ visited_count_ <= Size(route_)
        /\ NoDuplicates(prefix)
        /\ Elements(prefix) = VisitedSet
        /\ Cardinality(VisitedSet) = visited_count_
        /\ LastPlaced
           => /\ route_ = Put(last.pre.route_, last.pre.visited_count_, last.a)
              /\ SubSeq(route_, 1, last.pre.visited_count_)
                   = SubSeq(last.pre.route_, 1, last.pre.visited_count_)

\* C15 witness: a third node placed in a walker re-used after an earlier run.
C15_Witness ==
    /\ LastPlaced
    /\ visited_count_ >= 3
    /\ At(route_, visited_count_ - 1) = last.a
    /\ At(last.pre.route_, visited_count_ - 1) # last.a

\* C16: unvisited_ has no duplicates and holds every node that is not
\* visited (stale visited entries allowed); visit and try_visit leave it as
\* it is, and only get_unvisited_nodes takes entries out.
C16_LazyCandidateList ==
    /\ NoDuplicates(unvisited_)
    /\ (Nodes(dimension_) \ VisitedSet) \subseteq Elements(unvisited_)
    /\ last.name \in {"visit", "try_visit"} => unvisited_ = last.pre.unvisited_
    /\ ~(Elements(last.pre.unvisited_) \subseteq Elements(unvisited_))
       => last.name \in {"get_unvisited_nodes", "initialize"}
    /\ last.name = "initialize"
       => Elements(unvisited_) = Nodes(dimension_)

\* C16 witness: a visit left a stale entry in unvisited_.
C16_Witness ==
    /\ LastPlaced
    /\ visited_count_ < dimension_
    /\ Elements(unvisited_) \cap VisitedSet # {}
    /\ Size(unvisited_) < dimension_

\* The construction state initialize(d) gives a default-constructed walker.
FreshConstruction(d) == initialize(AntCtor, d)

\* C17: initialize(d) on a walker in any state gives dimension_ == d,
\* visited_count_ == 0, no node visited, route_ of length d and
\* unvisited_ == [0 .. d-1]: the construction state of a fresh walker.
C17_InitializeResets ==
    last.name = "initialize"
    => LET d == last.a
           fresh == FreshConstruction(d)
       IN  /\ dimension_ = d
           /\ visited_count_ = 0
           /\ \A n \in Nodes(d) : ~is_visited(AntSelf, n)
           /\ Size(route_) = d
           /\ unvisited_ = [k \in 1 .. d |-> k - 1]
           /\ dimension_ = fresh.dimension_
           /\ visited_count_ = fresh.visited_count_
           /\ visited_bitmask_ = fresh.visited_bitmask_
           /\ unvisited_ = fresh.unvisited_
           /\ Size(route_) = Size(fresh.route_)

\* C17 witness: initialize on a walker that was mid-construction with
\* another dimension and a compacted unvisited_ list.
C17_Witness ==
    /\ last.name = "initialize"
    /\ last.pre.visited_count_ > 0
    /\ last.pre.visited_count_ < last.pre.dimension_
    /\ last.pre.dimension_ # dimension_
    /\ Size(last.pre.unvisited_) < last.pre.dimension_
    /\ unvisited_ = [k \in 1 .. dimension_ |-> k - 1]

\* ===================================================================
\* Claims about the route iterator (checked under SpecIter)
\* ===================================================================

\* The iterator has taken exactly k steps, all of them goto_succ.
OnlySuccSteps(k) ==
    /\ Len(iterator.ops) = k
    /\ \A m \in 1 .. k : iterator.ops[m] = "succ"

\* C13: for get_iterator(s) on a tour of length L: the first goto_succ
\* returns get_succ(s) and the first goto_pred returns get_pred(s); a
\* goto_succ followed by a goto_pred, or the reverse, puts the cursor back;
\* L goto_succ calls in a row return every node once and end at s with the
\* cursor where it started; goto_succ at position L-1 moves to position 0.
C13_IteratorCycles ==
    iterator.active
    => LET it == iterator
           L == Size(route_)
           n == Len(it.ops)
       IN  /\ it.positions[1] = At(node_indices_, it.start)
           /\ (n >= 1 /\ it.ops[1] = "succ") => it.seen[1] = get_succ(Self, it.start)
           /\ (n >= 1 /\ it.ops[1] = "pred") => it.seen[1] = get_pred(Self, it.start)
           /\ \A k \in 1 .. (n - 1) :
                 it.ops[k] # it.ops[k + 1] => it.positions[k + 2] = it.positions[k]
           /\ \A k \in 1 .. n :
                 (it.ops[k] = "succ" /\ it.positions[k] = L - 1)
                 => it.positions[k + 1] = 0
           /\ OnlySuccSteps(L)
              => /\ NoDuplicates(it.seen)
                 /\ Elements(it.seen) = Nodes(L)
                 /\ it.seen[L] = it.start
                 /\ it.position_ = it.positions[1]

\* C13 witness: L goto_succ calls from a node in the middle of a tour of
\* length >= 3, back at the start after wrapping from L-1 to 0.
C13_Witness ==
    /\ iterator.active
    /\ Size(route_) >= 3
    /\ OnlySuccSteps(Size(route_))
    /\ iterator.positions[1] > 0
    /\ iterator.positions[1] < Size(route_) - 1
    /\ iterator.position_ = iterator.positions[1]
    /\ iterator.seen[Size(route_)] = iterator.start

\* ===================================================================
\* Claims about update (checked under SpecUpdate)
\* ===================================================================

\* C14 (as claimed): after update(route, cost) or update(other) on a tour in
\* any prior state, route_ is the supplied route, cost_ the supplied cost,
\* every index write fell inside node_indices_, and
\* node_indices_[route_[i]] == i for every position i.
C14_UpdateRebuildsIndex ==
    last.name \in {"update", "update_from"}
    => /\ route_ = last.a
       /\ cost_ = last.b
       /\ last.ok
       /\ \A i \in Nodes(Size(route_)) :
             /\ At(route_, i) < Size(node_indices_)
             /\ At(node_indices_, At(route_, i)) = i

\* ===================================================================
\* Claims about validate (checked under SpecValidate)
\* ===================================================================

\* validate on a Complete walker whose cost_ is the length of its route:
\* no assert fails and route_, cost_, visited_count_ and the visited bits
\* are what they were before the call.
ValidateKeepsCompleteWalker ==
    ( /\ last.name = "validate"
      /\ last.pre.visited_count_ = last.pre.dimension_
      /\ last.pre.cost_ = calculate_route_length(problem, last.pre.route_) )
    => /\ last.ok
       /\ route_ = last.pre.route_
       /\ cost_ = last.pre.cost_
       /\ visited_count_ = last.pre.visited_count_
       /\ visited_bitmask_ = last.pre.visited_bitmask_

\* validate, called in any state, leaves is_visited(node) as it was for
\* every node.
ValidateKeepsVisited ==
    last.name = "validate"
    => \A node \in Nodes(dimension_) :
          is_visited(AntSelf, node) = get_bit(last.pre.visited_bitmask_, node)

\* C18 (as claimed): validate(problem) is a pure self-check: on a Complete
\* walker whose cost equals the route length no assert fails and route_,
\* cost_, visited_count_ and the visited bits are unchanged; and in every
\* reachable state, mid-construction included, validate never changes which
\* nodes is_visited reports as visited.
C18_ValidateIsPure == ValidateKeepsCompleteWalker /\ ValidateKeepsVisited

\* ===================================================================
\* Claims about one construction (checked under SpecConstruct)
\* ===================================================================

\* The last call was a try_visit that returned true.
Succeeded(call) == call.name = "try_visit" /\ call.flag

\* C19: starting from initialize(d), under weak fairness of try_visit on
\* unvisited nodes the walker eventually has visited_count_ == dimension_;
\* visited_count_ starts at 0 and grows by one with every try_visit that
\* returns true and with nothing else, so this is after exactly d
\* successful calls, whatever failed try_visit and get_unvisited_nodes calls
\* are interleaved.
C19_ConstructionTerminates ==
    /\ visited_count_ = 0
    /\ <>(visited_count_ = dimension_)
    /\ [][visited_count_' = visited_count_ + (IF Succeeded(last') THEN 1 ELSE 0)]_vars

C19_Witness ==
    /\ dimension_ >= 2
    /\ visited_count_ = dimension_
    /\ Succeeded(last)
    /\ last.pre.visited_count_ = dimension_ - 1
    /\ Size(unvisited_) < dimension_

====
